---- MODULE Spec2Model ----
(***************************************************************************)
(* The signaling server of mediconnect (src/server/server.js): the three   *)
(* in-memory maps userSessions, rooms and activeCalls, the socket.io       *)
(* adapter's room membership, and one action per socket event handler.     *)
(* Every handler runs to completion before the next one starts (node's     *)
(* event loop, all handlers are synchronous), so each is one atomic step.  *)
(* The second part is the client's call component                          *)
(* (src/client/src/components/VideoCall/VideoCall.jsx): its React state,   *)
(* its refs, its suspended getUserMedia calls, and one action per socket   *)
(* handler, peer handler, promise continuation and button.                 *)
(***************************************************************************)
EXTENDS Integers, Sequences, FiniteSets, TLC

\* ---------------------------------------------------------------- bounds
MaxConns == 3          \* socket ids that exist at all
RoomsConns == 2        \* connections accepted in SpecRooms
RelayConns == 2        \* connections accepted in SpecRelay and SpecReconnect
CallsConns == 2        \* connections accepted in SpecCalls
RejoinConns == 3       \* connections accepted in SpecRejoin
MaxUuids == 2          \* call ids the server generates with uuidv4()
MaxParticipants == 3   \* accept-call is not taken once a Call lists this many
MaxPending == 3        \* getUserMedia calls of one kind a client has suspended at once
MaxPeers == 2          \* destroyed Peers of one client whose close event is outstanding

\* ---------------------------------------------------------------- values
\* Socket ids, in the order the server hands them out.
ConnSeq == <<"c1", "c2", "c3", "c4", "c5">>
ConnIds == {ConnSeq[i] : i \in 1..MaxConns}
NoConn == "no-socket"  \* an absent socketId
Users == {"X", "Y"}
NoUser == "no-user"    \* an absent / undefined userId
RoomIds == {"r1", "r2"}
NoRoom == "no-room"    \* an absent room
ClientSessionIds == {"k1"}
UuidSeq == <<"u1", "u2", "u3">>
CallIds == ClientSessionIds \cup {UuidSeq[n] : n \in 1..MaxUuids}
NoCall == "no-call"    \* null / undefined sessionId or currentCall
Payloads == {"p1", "p2"}
DefaultEndReason == "Call ended"
DefaultRejectReason == "Call rejected"
DisconnectReason == "Participant disconnected"
Reasons == {DefaultEndReason, DefaultRejectReason}

\* userData as the client may send it: the fields the server spreads into the
\* session object after socketId and userId.
PlainUserData == [socketId |-> NoConn, currentRoom |-> NoRoom, currentCall |-> NoCall]
UserDatas ==
    {PlainUserData}
    \cup {[PlainUserData EXCEPT !.socketId = s] : s \in ConnIds}
    \cup {[PlainUserData EXCEPT !.currentRoom = r] : r \in RoomIds}
    \cup {[PlainUserData EXCEPT !.currentCall = k] : k \in ClientSessionIds}

VARIABLES
    opened,        \* number of connections accepted so far
    closed,        \* socket ids whose disconnect has been processed
    userSessions,  \* Map userId -> session object
    sessOrder,     \* insertion order of the keys of userSessions
    rooms,         \* Map room -> Map socket id -> userId
    sockRooms,     \* socket.rooms without the socket's own id (adapter membership)
    activeCalls,   \* Map sessionId -> call
    uuids,         \* number of uuidv4() ids drawn
    emitted,       \* what the last handler emitted, in order
    saved,         \* CallNote documents the last handler asked to save
    lastEvent,     \* the message the last handler processed
    lastJoined,    \* observer: per connection, the room of its latest successful join-room
    known,         \* observer: per connection, the members it learned of since its latest join
    regBy,         \* observer: per identity, the sockets of its last two register-user messages
    snapshot,      \* observer: per connection, the members of its room-joined snapshot not yet reported left
    removed,       \* observer: the call ids that have been taken out of activeCalls
    uncaught       \* whether an exception has escaped a handler (process.on('uncaughtException'))

\* One mounted VideoCall component.
VARIABLES
    mounted,           \* the component is mounted
    callStatus,        \* useState callStatus
    connectionStatus,  \* useState connectionStatus
    connectionRetries, \* useState connectionRetries
    callerInfo,        \* whether callerInfo is set
    peerRef,           \* peerRef.current: "null", a "live" Peer or a "destroyed" one
    closing,           \* destroyed Peers whose 'close' event is still to be delivered
    sockState,         \* socketRef.current: "opening", "connected", or "none"
    pendingMedia,      \* suspended getUserMedia calls, per caller
    timerDelay,        \* seconds of the retry timer the last step armed, 0 if none
    ops,               \* what the last step did to its socket, timer, media and peers
    clientEvent        \* the event the last step of the client handled

program == <<opened, closed, userSessions, sessOrder, rooms, sockRooms, activeCalls, uuids,
            uncaught>>
server == <<opened, closed, userSessions, sessOrder, rooms, sockRooms, activeCalls,
            uuids, emitted, saved, lastEvent, lastJoined, known, regBy, snapshot, removed,
            uncaught>>
client == <<mounted, callStatus, connectionStatus, connectionRetries, callerInfo, peerRef,
            closing, sockState, pendingMedia, timerDelay, ops, clientEvent>>
vars == <<server, client>>

\* ---------------------------------------------------------------- helpers
EmptyMap == [k \in {} |-> NoCall]
MapSet(f, k, v) == [x \in (DOMAIN f) \cup {k} |-> IF x = k THEN v ELSE f[x]]
MapDelete(f, k) == [x \in (DOMAIN f) \ {k} |-> f[x]]

ConnIndex(c) == CHOOSE i \in 1..Len(ConnSeq) : ConnSeq[i] = c
IsOpen(c) == c \in {ConnSeq[i] : i \in 1..opened} /\ c \notin closed

First(S) == CHOOSE x \in S : \A y \in S : ConnIndex(x) <= ConnIndex(y)

RECURSIVE SortedSeq(_)
SortedSeq(S) == IF S = {} THEN << >> ELSE <<First(S)>> \o SortedSeq(S \ {First(S)})

Range(s) == {s[i] : i \in 1..Len(s)}

RECURSIVE Without(_, _)
Without(s, x) ==
    IF s = << >> THEN << >>
    ELSE IF Head(s) = x THEN Without(Tail(s), x)
    ELSE <<Head(s)>> \o Without(Tail(s), x)

Msg(to, ev, body) == [to |-> to, ev |-> ev, body |-> body]
ErrorMsg(c, message) == Msg(c, "error", [message |-> message])

OpenConns == {c \in ConnIds : IsOpen(c)}

\* io.to(id).emit / socket.emit reach the connection with that id while it is open.
Delivered(m) == IsOpen(m.to)

\* ---------------------------------------------------------------- Init
Init ==
    /\ opened = 0
    /\ closed = {}
    /\ userSessions = EmptyMap
    /\ sessOrder = << >>
    /\ rooms = EmptyMap
    /\ sockRooms = [c \in ConnIds |-> {}]
    /\ activeCalls = EmptyMap
    /\ uuids = 0
    /\ emitted = << >>
    /\ saved = << >>
    /\ lastEvent = [ev |-> "init"]
    /\ lastJoined = [c \in ConnIds |-> NoRoom]
    /\ known = [c \in ConnIds |-> {}]
    /\ regBy = [u \in Users |-> <<NoConn, NoConn>>]
    /\ snapshot = [c \in ConnIds |-> {}]
    /\ removed = {}
    /\ uncaught = FALSE
    \* the component after its first effect ran: initializeSocket() has created the
    \* socket and initialize() waits for getUserMedia(true)
    /\ mounted = TRUE
    /\ callStatus = "idle"
    /\ connectionStatus = "Disconnected"
    /\ connectionRetries = 0
    /\ callerInfo = FALSE
    /\ peerRef = "null"
    /\ closing = 0
    /\ sockState = "opening"
    /\ pendingMedia = [init |-> 1, offer |-> 0, answer |-> 0]
    /\ timerDelay = 0
    /\ ops = << >>
    /\ clientEvent = "mount"

\* io.on('connection'): the next socket id is handed out.
Connect ==
    /\ opened < MaxConns
    /\ opened' = opened + 1
    /\ emitted' = << >>
    /\ saved' = << >>
    /\ lastEvent' = [ev |-> "connection", socket |-> ConnSeq[opened + 1]]
    /\ UNCHANGED <<uncaught, closed, userSessions, sessOrder, rooms, sockRooms, activeCalls,
                   uuids>>

\* ---------------------------------------------------------------- userSessions
Has(m, k) == k \in DOMAIN m

\* Map.set keeps the position of a key that is already present.
OrderSet(order, k) == IF k \in Range(order) THEN order ELSE Append(order, k)

\* { socketId: socket.id, userId, ...userData, connectedAt }: a field of userData
\* overrides the one written before the spread; a registration carries over nothing
\* of the session object it replaces.
NewSession(c, ud) ==
    [socketId    |-> IF ud.socketId # NoConn THEN ud.socketId ELSE c,
     currentRoom |-> ud.currentRoom,
     currentCall |-> ud.currentCall]

\* Array.from(userSessions.entries()).find(([id, s]) => s.socketId === socket.id)?.[0]
\* and the disconnect handler's for..of with its break: the first key, in insertion
\* order, whose session has this socket id.
RECURSIVE FirstWithSocket(_, _, _)
FirstWithSocket(sess, order, c) ==
    IF order = << >> THEN NoUser
    ELSE IF sess[Head(order)].socketId = c THEN Head(order)
    ELSE FirstWithSocket(sess, Tail(order), c)

\* socket.on('register-user')
RegisterUser(c, userId, ud) ==
    /\ IsOpen(c)
    /\ lastEvent' = [ev |-> "register-user", socket |-> c, userId |-> userId]
    /\ saved' = << >>
    /\ IF userId = NoUser
       THEN /\ emitted' = <<ErrorMsg(c, "Failed to register user")>>
            /\ UNCHANGED <<userSessions, sessOrder>>
       ELSE /\ userSessions' = MapSet(userSessions, userId, NewSession(c, ud))
            /\ sessOrder' = OrderSet(sessOrder, userId)
            /\ emitted' = <<Msg(c, "user-registered", [userId |-> userId])>>
    /\ UNCHANGED <<uncaught, opened, closed, rooms, sockRooms, activeCalls, uuids>>

\* ---------------------------------------------------------------- rooms
\* socket.to(room): the sockets the adapter has in the room, but the sender.
RoomSockets(adapter, room, c) == {d \in ConnIds : room \in adapter[d]} \ {c}

Broadcast(adapter, room, c, ev, body) ==
    LET to == SortedSeq(RoomSockets(adapter, room, c))
    IN  [i \in 1..Len(to) |-> Msg(to[i], ev, body)]

\* A leaveRoom that forgets roomData.delete(socket.id).
LeaveRoomRoomsKeepsEntry(rms, c, room) == rms

\* leaveRoom(socket, room, userId): the rooms map afterwards.
LeaveRoomRooms(rms, c, room) ==
    IF room = NoRoom \/ ~Has(rms, room) THEN rms
    ELSE LET roomData == MapDelete(rms[room], c)
         IN  IF DOMAIN roomData = {} THEN MapDelete(rms, room)
             ELSE MapSet(rms, room, roomData)

\* leaveRoom: socket.leave(room).
LeaveRoomAdapter(adapter, c, room) ==
    IF room = NoRoom THEN adapter ELSE [adapter EXCEPT ![c] = @ \ {room}]

\* leaveRoom: the user-left broadcast, sent only when the socket had an entry.
LeaveRoomEmits(rms, adapter, c, room, userId) ==
    IF room # NoRoom /\ Has(rms, room) /\ Has(rms[room], c)
    THEN Broadcast(LeaveRoomAdapter(adapter, c, room), room, c, "user-left",
                   [socketId |-> c,
                    userId |-> IF userId # NoUser THEN userId ELSE rms[room][c]])
    ELSE << >>

\* Array.from(socket.rooms).find(r => r !== socket.id), when socket.rooms.size > 1.
CurrentRoomOf(adapter, c) ==
    IF adapter[c] = {} THEN NoRoom ELSE CHOOSE r \in adapter[c] : TRUE

\* A snapshot whose filter is inverted: id === socket.id.
ParticipantsSelfOnly(roomData, c) ==
    {[socketId |-> d, userId |-> roomData[d]] : d \in (DOMAIN roomData) \cap {c}}

\* Array.from(roomData.entries()).filter(([id]) => id !== socket.id).map(...)
Participants(roomData, c) ==
    {[socketId |-> d, userId |-> roomData[d]] : d \in (DOMAIN roomData) \ {c}}

\* roomData.set(socket.id, {userId, userData, joinedAt}), creating the room first.
JoinRooms(rms, c, room, userId) ==
    MapSet(rms, room, MapSet(IF Has(rms, room) THEN rms[room] ELSE EmptyMap, c, userId))

\* if (userSessions.has(userId)) set {...userSession, currentRoom: room, socketId}
JoinSessions(sess, c, room, userId) ==
    IF Has(sess, userId)
    THEN MapSet(sess, userId, [sess[userId] EXCEPT !.currentRoom = room, !.socketId = c])
    ELSE sess

\* if (participants.length > 0) socket.emit('room-joined', {room, participants})
RoomJoinedEmits(c, room, participants) ==
    IF participants # {}
    THEN <<Msg(c, "room-joined", [room |-> room, participants |-> participants])>>
    ELSE << >>

\* What a connection has learned of its room's members from the events it got:
\* room-joined sets it, user-joined adds, user-left removes.
RECURSIVE Learn(_, _, _)
Learn(kn, msgs, open) ==
    IF msgs = << >> THEN kn
    ELSE LET m == Head(msgs)
             kn2 == IF m.to \notin open THEN kn
                    ELSE IF m.ev = "room-joined"
                         THEN [kn EXCEPT ![m.to] = {p.socketId : p \in m.body.participants}]
                    ELSE IF m.ev = "user-joined"
                         THEN [kn EXCEPT ![m.to] = @ \cup {m.body.socketId}]
                    ELSE IF m.ev = "user-left"
                         THEN [kn EXCEPT ![m.to] = @ \ {m.body.socketId}]
                    ELSE kn
         IN  Learn(kn2, Tail(msgs), open)

\* socket.on('join-room')
JoinRoom(c, room, userId) ==
    /\ IsOpen(c)
    /\ lastEvent' = [ev |-> "join-room", socket |-> c, room |-> room, userId |-> userId]
    /\ saved' = << >>
    /\ IF room = NoRoom \/ userId = NoUser
       THEN /\ emitted' = <<ErrorMsg(c, "Failed to join room")>>
            /\ UNCHANGED <<userSessions, rooms, sockRooms>>
       ELSE LET currentRoom == CurrentRoomOf(sockRooms, c)
                left      == LeaveRoomEmits(rooms, sockRooms, c, currentRoom, userId)
                rooms1    == LeaveRoomRooms(rooms, c, currentRoom)
                adapter1  == LeaveRoomAdapter(sockRooms, c, currentRoom)
                adapter2  == [adapter1 EXCEPT ![c] = @ \cup {room}]
                rooms2    == JoinRooms(rooms1, c, room, userId)
                others    == Participants(rooms2[room], c)
                out       == left
                             \o Broadcast(adapter2, room, c, "user-joined",
                                          [userId |-> userId, socketId |-> c,
                                           participants |-> others])
                             \o RoomJoinedEmits(c, room, others)
            IN  /\ rooms' = rooms2
                /\ sockRooms' = adapter2
                /\ userSessions' = JoinSessions(userSessions, c, room, userId)
                /\ emitted' = out
    /\ UNCHANGED <<uncaught, opened, closed, sessOrder, activeCalls, uuids>>

\* ---------------------------------------------------------------- relay
\* The message of an offer or an answer: {to, caller, offer|answer, sessionId}.
\* The client's answer and ice-candidate messages carry no caller.
RelayData == [to : Users \cup {NoUser}, caller : Users \cup {NoUser}, payload : Payloads,
              sessionId : ClientSessionIds]

\* io.to(targetUser.socketId).emit(kind, data): offer and answer forward the message
\* object itself.
ForwardVerbatim(sess, kind, data) == <<Msg(sess[data.to].socketId, kind, data)>>

\* io.to(targetUser.socketId).emit('ice-candidate', {from: socket.id, candidate, sessionId})
ForwardIce(sess, c, data) ==
    <<Msg(sess[data.to].socketId, "ice-candidate",
          [from |-> c, candidate |-> data.payload, sessionId |-> data.sessionId])>>

RelayFailure(kind) ==
    IF kind = "offer" THEN "Failed to send offer"
    ELSE IF kind = "answer" THEN "Failed to send answer"
    ELSE "Failed to send ICE candidate"

\* A relay that drops the message of an unknown target without telling the sender.
RelayEmitsSilentDrop(sess, c, kind, data) ==
    IF ~Has(sess, data.to) THEN << >>
    ELSE IF kind = "ice-candidate" THEN ForwardIce(sess, c, data)
    ELSE ForwardVerbatim(sess, kind, data)

\* The three relay handlers: resolve data.to in userSessions, forward on a hit,
\* throw (caught: error to the sender) on a miss. A message without a `to`, or no
\* message object at all, ends in the same catch.
RelayEmits(sess, c, kind, data) ==
    IF ~Has(sess, data.to) THEN <<ErrorMsg(c, RelayFailure(kind))>>
    ELSE IF kind = "ice-candidate" THEN ForwardIce(sess, c, data)
    ELSE ForwardVerbatim(sess, kind, data)

Relay(c, kind, data) ==
    /\ IsOpen(c)
    /\ lastEvent' = [ev |-> kind, socket |-> c, data |-> data]
    /\ emitted' = RelayEmits(userSessions, c, kind, data)
    /\ saved' = << >>
    /\ UNCHANGED <<uncaught, opened, closed, userSessions, sessOrder, rooms, sockRooms,
                   activeCalls, uuids>>

\* socket.on('offer')
Offer(c, data) == Relay(c, "offer", data)

\* socket.on('answer')
Answer(c, data) == Relay(c, "answer", data)

\* socket.on('ice-candidate')
IceCandidate(c, data) == Relay(c, "ice-candidate", data)

\* ---------------------------------------------------------------- calls
\* endCall: socketsToNotify, a Set filled in the order of call.participants with the
\* socket id of every participant that has a session.
RECURSIVE SocketsToNotify(_, _, _)
SocketsToNotify(sess, participants, acc) ==
    IF participants = << >> THEN acc
    ELSE LET p == Head(participants)
             acc2 == IF Has(sess, p) /\ sess[p].socketId \notin Range(acc)
                     THEN Append(acc, sess[p].socketId) ELSE acc
         IN  SocketsToNotify(sess, Tail(participants), acc2)

EndCallApplies(calls, sessionId) == sessionId # NoCall /\ Has(calls, sessionId)

\* endCall: one call-ended per socket to notify.
EndCallEmits(calls, sess, sessionId, userId, reason) ==
    IF ~EndCallApplies(calls, sessionId) THEN << >>
    ELSE LET to == SocketsToNotify(sess, calls[sessionId].participants, << >>)
         IN  [i \in 1..Len(to) |->
                Msg(to[i], "call-ended",
                    [sessionId |-> sessionId, reason |-> reason, endedBy |-> userId])]

\* An endCall that forgets activeCalls.delete(sessionId).
EndCallCallsKeepsCall(calls, sessionId) == calls

\* endCall: activeCalls.delete(sessionId)
EndCallCalls(calls, sessionId) ==
    IF EndCallApplies(calls, sessionId) THEN MapDelete(calls, sessionId) ELSE calls

\* Clearing currentCall of the listed identities whose currentCall is this call.
ClearCurrentCall(sess, ids, sessionId) ==
    [u \in DOMAIN sess |->
        IF u \in ids /\ sess[u].currentCall = sessionId
        THEN [sess[u] EXCEPT !.currentCall = NoCall] ELSE sess[u]]

\* endCall: the participants' sessions are updated.
EndCallSessions(calls, sess, sessionId) ==
    IF EndCallApplies(calls, sessionId)
    THEN ClearCurrentCall(sess, Range(calls[sessionId].participants), sessionId)
    ELSE sess

\* saveCallDetails: status is 'rejected' when the reason includes 'rejected'.
SavedStatus(reason) == IF reason = DefaultRejectReason THEN "rejected" ELSE "completed"

\* endCall: if (call.startedAt && participants.length > 0) saveCallDetails(...)
EndCallSaves(calls, sessionId, userId, reason) ==
    IF EndCallApplies(calls, sessionId) /\ Len(calls[sessionId].participants) > 0
    THEN <<[sessionId |-> sessionId, participants |-> calls[sessionId].participants,
            status |-> SavedStatus(reason), endedBy |-> userId, reason |-> reason]>>
    ELSE << >>

\* activeCalls.set(callSessionId, {caller, callee: to, participants: [caller], status})
NewCall(caller, to) ==
    [caller |-> caller, callee |-> to, participants |-> <<caller>>, status |-> "initiated"]

SetCurrentCall(sess, userId, sessionId) ==
    IF Has(sess, userId)
    THEN MapSet(sess, userId, [sess[userId] EXCEPT !.currentCall = sessionId])
    ELSE sess

\* socket.on('initiate-call'); sessionId = NoCall stands for a message without one,
\* which makes the server draw a uuid.
InitiateCall(c, to, caller, sessionId) ==
    /\ IsOpen(c)
    /\ sessionId = NoCall => uuids < MaxUuids
    /\ lastEvent' = [ev |-> "initiate-call", socket |-> c, to |-> to, caller |-> caller,
                     sessionId |-> sessionId]
    /\ saved' = << >>
    /\ IF to = NoUser \/ caller = NoUser
       THEN /\ emitted' = <<ErrorMsg(c, "Failed to initiate call")>>
            /\ UNCHANGED <<userSessions, activeCalls, uuids>>
       ELSE LET callSessionId == IF sessionId # NoCall THEN sessionId ELSE UuidSeq[uuids + 1]
            IN  /\ uuids' = IF sessionId # NoCall THEN uuids ELSE uuids + 1
                /\ activeCalls' = MapSet(activeCalls, callSessionId, NewCall(caller, to))
                /\ userSessions' = SetCurrentCall(userSessions, caller, callSessionId)
                /\ emitted' =
                     IF ~Has(userSessions, to)
                     THEN <<ErrorMsg(c, "Failed to initiate call")>>
                     ELSE <<Msg(userSessions'[to].socketId, "incoming-call",
                                [sessionId |-> callSessionId, caller |-> caller]),
                            Msg(c, "call-initiated",
                                [sessionId |-> callSessionId, callee |-> to])>>
    /\ UNCHANGED <<uncaught, opened, closed, sessOrder, rooms, sockRooms>>

\* call.participants.push(callerId); call.status = 'in-progress'
AcceptedCall(call, callerId) ==
    [call EXCEPT !.participants = Append(@, callerId), !.status = "in-progress"]

\* socket.on('accept-call')
AcceptCall(c, to, sessionId, callerId) ==
    /\ IsOpen(c)
    /\ Has(activeCalls, sessionId) =>
          Len(activeCalls[sessionId].participants) < MaxParticipants
    /\ lastEvent' = [ev |-> "accept-call", socket |-> c, to |-> to,
                     sessionId |-> sessionId, callerId |-> callerId]
    /\ saved' = << >>
    /\ IF to = NoUser \/ sessionId = NoCall \/ ~Has(activeCalls, sessionId)
       THEN /\ emitted' = <<ErrorMsg(c, "Failed to accept call")>>
            /\ UNCHANGED <<userSessions, activeCalls>>
       ELSE /\ activeCalls' = MapSet(activeCalls, sessionId,
                                     AcceptedCall(activeCalls[sessionId], callerId))
            /\ userSessions' = SetCurrentCall(userSessions, callerId, sessionId)
            /\ emitted' =
                 IF ~Has(userSessions, to)
                 THEN <<ErrorMsg(c, "Failed to accept call")>>
                 ELSE <<Msg(userSessions'[to].socketId, "call-accepted",
                            [sessionId |-> sessionId, callerId |-> callerId])>>
    /\ UNCHANGED <<uncaught, opened, closed, sessOrder, rooms, sockRooms, uuids>>

\* socket.on('reject-call')
RejectCall(c, to, sessionId, reason) ==
    /\ IsOpen(c)
    /\ lastEvent' = [ev |-> "reject-call", socket |-> c, to |-> to,
                     sessionId |-> sessionId, reason |-> reason]
    /\ saved' = << >>
    /\ IF to = NoUser \/ sessionId = NoCall
       THEN /\ emitted' = <<ErrorMsg(c, "Failed to reject call")>>
            /\ UNCHANGED <<userSessions, activeCalls>>
       ELSE IF ~Has(activeCalls, sessionId)
       THEN /\ emitted' = << >>
            /\ UNCHANGED <<userSessions, activeCalls>>
       ELSE LET call == activeCalls[sessionId]
            IN  /\ emitted' =
                     IF Has(userSessions, to)
                     THEN <<Msg(userSessions[to].socketId, "call-rejected",
                                [sessionId |-> sessionId, reason |-> reason])>>
                     ELSE << >>
                /\ activeCalls' = MapDelete(activeCalls, sessionId)
                /\ userSessions' =
                     ClearCurrentCall(userSessions, {call.caller, call.callee}, sessionId)
    /\ UNCHANGED <<uncaught, opened, closed, sessOrder, rooms, sockRooms, uuids>>

\* socket.on('end-call')
EndCall(c, to, sessionId, reason) ==
    /\ IsOpen(c)
    /\ lastEvent' = [ev |-> "end-call", socket |-> c, to |-> to,
                     sessionId |-> sessionId, reason |-> reason]
    /\ IF sessionId = NoCall
       THEN /\ emitted' = <<ErrorMsg(c, "Failed to end call")>>
            /\ saved' = << >>
            /\ UNCHANGED <<userSessions, activeCalls>>
       ELSE LET found  == FirstWithSocket(userSessions, sessOrder, c)
                userId == IF found # NoUser THEN found ELSE to
            IN  /\ emitted' = EndCallEmits(activeCalls, userSessions, sessionId, userId, reason)
                /\ saved' = EndCallSaves(activeCalls, sessionId, userId, reason)
                /\ activeCalls' = EndCallCalls(activeCalls, sessionId)
                /\ userSessions' = EndCallSessions(activeCalls, userSessions, sessionId)
    /\ UNCHANGED <<uncaught, opened, closed, sessOrder, rooms, sockRooms, uuids>>

\* ---------------------------------------------------------------- disconnect
\* socket.on('disconnect'). socket.io has already taken the socket out of every
\* adapter room when the handler runs. The loop stops at the first session whose
\* socketId is this socket's.
Disconnect(c) ==
    /\ IsOpen(c)
    /\ closed' = closed \cup {c}
    /\ lastEvent' = [ev |-> "disconnect", socket |-> c]
    /\ LET adapter == [sockRooms EXCEPT ![c] = {}]
           userId  == FirstWithSocket(userSessions, sessOrder, c)
       IN  IF userId = NoUser
           THEN /\ sockRooms' = adapter
                /\ emitted' = << >>
                /\ saved' = << >>
                /\ UNCHANGED <<userSessions, sessOrder, rooms, activeCalls>>
           ELSE LET data  == userSessions[userId]
                    ended == EndCallEmits(activeCalls, userSessions, data.currentCall,
                                          userId, DisconnectReason)
                    left  == LeaveRoomEmits(rooms, adapter, c, data.currentRoom, userId)
                    sess1 == EndCallSessions(activeCalls, userSessions, data.currentCall)
                IN  /\ emitted' = ended \o left
                    /\ saved' = EndCallSaves(activeCalls, data.currentCall, userId,
                                             DisconnectReason)
                    /\ activeCalls' = EndCallCalls(activeCalls, data.currentCall)
                    /\ rooms' = LeaveRoomRooms(rooms, c, data.currentRoom)
                    /\ sockRooms' = adapter
                    /\ userSessions' = MapDelete(sess1, userId)
                    /\ sessOrder' = Without(sessOrder, userId)
    /\ UNCHANGED <<uncaught, opened, uuids>>

\* ---------------------------------------------------------------- absent payloads
\* The messages a client can send.
EventNames ==
    {"register-user", "join-room", "offer", "answer", "ice-candidate",
     "initiate-call", "accept-call", "reject-call", "end-call"}

\* register-user and join-room take their payload apart in the parameter list,
\* ({ userId, userData }) => ..., which is evaluated before the handler's try block
\* is entered; the other handlers read their payload inside the try.
DestructuresInParameters(ev) == ev \in {"register-user", "join-room"}

\* The message of the error event the catch block of a handler sends.
FailureOf(ev) ==
    IF ev \in {"offer", "answer", "ice-candidate"} THEN RelayFailure(ev)
    ELSE IF ev = "initiate-call" THEN "Failed to initiate call"
    ELSE IF ev = "accept-call" THEN "Failed to accept call"
    ELSE IF ev = "reject-call" THEN "Failed to reject call"
    ELSE IF ev = "end-call" THEN "Failed to end call"
    ELSE IF ev = "join-room" THEN "Failed to join room"
    ELSE "Failed to register user"

\* gracefulShutdown: io.emit('server-shutdown', ...) to every connected socket.
ShutdownEmits ==
    LET to == SortedSeq(OpenConns)
    IN  [i \in 1..Len(to) |-> Msg(to[i], "server-shutdown", [message |-> "shutdown"])]

\* A message sent with no payload at all, socket.emit(ev). The TypeError of reading
\* a property of undefined is caught where it is raised inside the try; raised in
\* the parameter list it leaves the listener, nothing catches it, and
\* process.on('uncaughtException') starts gracefulShutdown.
NoPayload(c, ev) ==
    /\ IsOpen(c)
    /\ lastEvent' = [ev |-> "no-payload", name |-> ev, socket |-> c]
    /\ saved' = << >>
    /\ IF DestructuresInParameters(ev)
       THEN /\ uncaught' = TRUE
            /\ emitted' = ShutdownEmits
       ELSE /\ uncaught' = uncaught
            /\ emitted' = <<ErrorMsg(c, FailureOf(ev))>>
    /\ UNCHANGED <<opened, closed, userSessions, sessOrder, rooms, sockRooms, activeCalls,
                   uuids>>

\* gracefulShutdown: io.close() closes the connections one after the other, and the
\* disconnect handler of each runs; no message is handled in between.
Running == ~uncaught

ShutdownDisconnect == uncaught /\ OpenConns # {} /\ Disconnect(First(OpenConns))

\* ---------------------------------------------------------------- timers
\* setInterval(..., 60000): the status monitor, the only timer the server starts.
\* It logs the sizes of the maps and changes none of them.
StatusMonitor ==
    /\ lastEvent' = [ev |-> "status"]
    /\ emitted' = << >>
    /\ saved' = << >>
    /\ UNCHANGED program

\* ---------------------------------------------------------------- observers
\* The handlers above say nothing of lastJoined, known, regBy, snapshot and removed: each specification
\* switches on the observers its properties read and leaves the others alone.
JoinSucceeded(e) == e.ev = "join-room" /\ e.room # NoRoom /\ e.userId # NoUser

ObserveRooms ==
    /\ lastJoined' = IF JoinSucceeded(lastEvent')
                     THEN [lastJoined EXCEPT ![lastEvent'.socket] = lastEvent'.room]
                     ELSE lastJoined
    /\ known' = Learn(IF JoinSucceeded(lastEvent')
                      THEN [known EXCEPT ![lastEvent'.socket] = {}] ELSE known,
                      emitted', OpenConns')

ObserveRegistrations ==
    regBy' = IF lastEvent'.ev = "register-user" /\ lastEvent'.userId # NoUser
             THEN [regBy EXCEPT ![lastEvent'.userId] = <<@[2], lastEvent'.socket>>]
             ELSE regBy

\* What is left of a connection's room-joined snapshot: room-joined sets it, a
\* user-left that names a member's socket or identity takes that member out.
RECURSIVE LearnSnapshot(_, _, _)
LearnSnapshot(sn, msgs, open) ==
    IF msgs = << >> THEN sn
    ELSE LET m == Head(msgs)
             sn2 == IF m.to \notin open THEN sn
                    ELSE IF m.ev = "room-joined"
                         THEN [sn EXCEPT ![m.to] = m.body.participants]
                    ELSE IF m.ev = "user-left"
                         THEN [sn EXCEPT ![m.to] =
                                 {p \in @ : /\ p.socketId # m.body.socketId
                                            /\ p.userId # m.body.userId}]
                    ELSE sn
         IN  LearnSnapshot(sn2, Tail(msgs), open)

\* A connection's own join-room starts it afresh.
SnapshotAtJoin ==
    IF JoinSucceeded(lastEvent')
    THEN [snapshot EXCEPT ![lastEvent'.socket] = {}] ELSE snapshot

ObserveSnapshots == snapshot' = LearnSnapshot(SnapshotAtJoin, emitted', OpenConns')

\* activeCalls.delete(sessionId) in endCall and in reject-call.
ObserveRemoved == removed' = removed \cup ((DOMAIN activeCalls) \ (DOMAIN activeCalls'))

\* ---------------------------------------------------------------- specifications
\* Every handler, with every input that carries a payload.
NextRunning ==
    \/ Connect
    \/ \E c \in ConnIds, u \in Users \cup {NoUser}, ud \in UserDatas :
          RegisterUser(c, u, ud)
    \/ \E c \in ConnIds, r \in RoomIds \cup {NoRoom}, u \in Users \cup {NoUser} :
          JoinRoom(c, r, u)
    \/ \E c \in ConnIds, d \in RelayData : Offer(c, d)
    \/ \E c \in ConnIds, d \in RelayData : Answer(c, d)
    \/ \E c \in ConnIds, d \in RelayData : IceCandidate(c, d)
    \/ \E c \in ConnIds, to, caller \in Users \cup {NoUser},
          k \in ClientSessionIds \cup {NoCall} : InitiateCall(c, to, caller, k)
    \/ \E c \in ConnIds, to, callerId \in Users \cup {NoUser},
          k \in ClientSessionIds \cup {NoCall} : AcceptCall(c, to, k, callerId)
    \/ \E c \in ConnIds, to \in Users \cup {NoUser},
          k \in ClientSessionIds \cup {NoCall}, r \in Reasons : RejectCall(c, to, k, r)
    \/ \E c \in ConnIds, to \in Users \cup {NoUser},
          k \in ClientSessionIds \cup {NoCall}, r \in Reasons : EndCall(c, to, k, r)
    \/ \E c \in ConnIds : Disconnect(c)
    \/ StatusMonitor

\* Every handler, with every input, until an uncaught exception shuts the server down.
Next ==
    /\ \/ ShutdownDisconnect
       \/ Running /\ \E c \in ConnIds, ev \in EventNames : NoPayload(c, ev)
       \/ Running /\ NextRunning
    /\ ObserveRooms
    /\ ObserveRegistrations
    /\ ObserveSnapshots
    /\ ObserveRemoved
    /\ UNCHANGED client

Spec == Init /\ [][Next]_vars

\* The room traffic: connections, registrations, joins and disconnects, all of them
\* well-formed. No Call exists here, so a currentCall in userData changes nothing.
RoomsConnect == opened < RoomsConns /\ Connect /\ ObserveRooms /\ UNCHANGED <<regBy, snapshot, removed, client>>

RoomsRegisterUser ==
    /\ \E c \in ConnIds, u \in Users :
          \E ud \in {x \in UserDatas : x.currentCall = NoCall /\ x.currentRoom = NoRoom} :
             RegisterUser(c, u, ud)
    /\ ObserveRooms /\ UNCHANGED <<regBy, snapshot, removed, client>>

RoomsJoinRoom ==
    /\ \E c \in ConnIds, r \in RoomIds, u \in Users : JoinRoom(c, r, u)
    /\ ObserveRooms /\ UNCHANGED <<regBy, snapshot, removed, client>>

RoomsDisconnect ==
    /\ \E c \in ConnIds : Disconnect(c)
    /\ ObserveRooms /\ UNCHANGED <<regBy, snapshot, removed, client>>

NextRooms == RoomsConnect \/ RoomsRegisterUser \/ RoomsJoinRoom \/ RoomsDisconnect

SpecRooms == Init /\ [][NextRooms]_vars


\* The relay traffic over a registry that registrations and disconnects keep
\* changing.
RelayObservers == UNCHANGED <<lastJoined, known, regBy, snapshot, removed, client>>

RelayConnect == opened < RelayConns /\ Connect /\ RelayObservers

RelayRegisterUser ==
    /\ \E c \in ConnIds, u \in Users \cup {NoUser} :
          \E ud \in {x \in UserDatas : x.currentCall = NoCall /\ x.currentRoom = NoRoom} :
             RegisterUser(c, u, ud)
    /\ RelayObservers

RelayDisconnect ==
    /\ \E c \in ConnIds : Disconnect(c)
    /\ RelayObservers

RelayOffer == (\E c \in ConnIds, d \in RelayData : Offer(c, d)) /\ RelayObservers

RelayAnswer == (\E c \in ConnIds, d \in RelayData : Answer(c, d)) /\ RelayObservers

RelayIceCandidate ==
    (\E c \in ConnIds, d \in RelayData : IceCandidate(c, d)) /\ RelayObservers

NextRelay ==
    \/ RelayConnect \/ RelayRegisterUser \/ RelayDisconnect
    \/ RelayOffer \/ RelayAnswer \/ RelayIceCandidate

SpecRelay == Init /\ [][NextRelay]_vars

\* A reconnecting client: registrations as the client sends them, joins of one
\* room, disconnects, and relay messages that differ in their target only.
ReconnectData == {d \in RelayData : d.to # NoUser /\ d.caller = NoUser /\ d.payload = "p1"}

ReconnectObservers == ObserveRegistrations /\ UNCHANGED <<lastJoined, known, snapshot, removed, client>>

ReconnectConnect == opened < RelayConns /\ Connect /\ ReconnectObservers

ReconnectRegisterUser ==
    /\ \E c \in ConnIds, u \in Users : RegisterUser(c, u, PlainUserData)
    /\ ReconnectObservers

ReconnectJoinRoom ==
    /\ \E c \in ConnIds, u \in Users : JoinRoom(c, "r1", u)
    /\ ReconnectObservers

ReconnectDisconnect ==
    /\ \E c \in ConnIds : Disconnect(c)
    /\ ReconnectObservers

ReconnectOffer ==
    (\E c \in ConnIds, d \in ReconnectData : Offer(c, d)) /\ ReconnectObservers

ReconnectAnswer ==
    (\E c \in ConnIds, d \in ReconnectData : Answer(c, d)) /\ ReconnectObservers

ReconnectIceCandidate ==
    (\E c \in ConnIds, d \in ReconnectData : IceCandidate(c, d)) /\ ReconnectObservers

NextReconnect ==
    \/ ReconnectConnect \/ ReconnectRegisterUser \/ ReconnectJoinRoom \/ ReconnectDisconnect
    \/ ReconnectOffer \/ ReconnectAnswer \/ ReconnectIceCandidate

SpecReconnect == Init /\ [][NextReconnect]_vars

\* The call traffic: registrations, the four call-lifecycle messages, each with the
\* session id the client chose, and disconnects.
CallsObservers == UNCHANGED <<lastJoined, known, regBy, snapshot, client>> /\ ObserveRemoved

CallsConnect == opened < CallsConns /\ Connect /\ CallsObservers

CallsRegisterUser ==
    /\ \E c \in ConnIds, u \in Users : RegisterUser(c, u, PlainUserData)
    /\ CallsObservers

CallsInitiateCall ==
    /\ \E c \in ConnIds, to, caller \in Users, k \in ClientSessionIds :
          InitiateCall(c, to, caller, k)
    /\ CallsObservers

CallsAcceptCall ==
    /\ \E c \in ConnIds, to, callerId \in Users, k \in ClientSessionIds :
          AcceptCall(c, to, k, callerId)
    /\ CallsObservers

CallsRejectCall ==
    /\ \E c \in ConnIds, to \in Users, k \in ClientSessionIds :
          RejectCall(c, to, k, DefaultRejectReason)
    /\ CallsObservers

CallsEndCall ==
    /\ \E c \in ConnIds, to \in Users, k \in ClientSessionIds :
          EndCall(c, to, k, DefaultEndReason)
    /\ CallsObservers

CallsDisconnect ==
    /\ \E c \in ConnIds : Disconnect(c)
    /\ CallsObservers

NextCalls ==
    \/ CallsConnect \/ CallsRegisterUser \/ CallsInitiateCall \/ CallsAcceptCall
    \/ CallsRejectCall \/ CallsEndCall \/ CallsDisconnect

SpecCalls == Init /\ [][NextCalls]_vars

\* Members that rejoin one room over fresh connections: registrations as the client
\* sends them, joins of one room, disconnects.
RejoinObservers == ObserveSnapshots /\ UNCHANGED <<lastJoined, known, regBy, removed, client>>

RejoinConnect == opened < RejoinConns /\ Connect /\ RejoinObservers

RejoinRegisterUser ==
    /\ \E c \in ConnIds, u \in Users : RegisterUser(c, u, PlainUserData)
    /\ RejoinObservers

RejoinJoinRoom ==
    /\ \E c \in ConnIds, u \in Users : JoinRoom(c, "r1", u)
    /\ RejoinObservers

RejoinDisconnect ==
    /\ \E c \in ConnIds : Disconnect(c)
    /\ RejoinObservers

NextRejoin == RejoinConnect \/ RejoinRegisterUser \/ RejoinJoinRoom \/ RejoinDisconnect

SpecRejoin == Init /\ [][NextRejoin]_vars

\* A callee that never answers: registrations, initiate-call, the caller's end-call,
\* disconnects, and no accept-call or reject-call. The timer fires whenever it is
\* due; when a client sends a message is up to the client.
NoAnswerObservers == UNCHANGED <<lastJoined, known, regBy, snapshot, client>> /\ ObserveRemoved

NoAnswerConnect == opened < CallsConns /\ Connect /\ NoAnswerObservers

NoAnswerRegisterUser ==
    /\ \E c \in ConnIds, u \in Users : RegisterUser(c, u, PlainUserData)
    /\ NoAnswerObservers

NoAnswerInitiateCall ==
    /\ \E c \in ConnIds, to, caller \in Users, k \in ClientSessionIds :
          InitiateCall(c, to, caller, k)
    /\ NoAnswerObservers

NoAnswerEndCall ==
    /\ \E c \in ConnIds, to \in Users, k \in ClientSessionIds :
          EndCall(c, to, k, DefaultEndReason)
    /\ NoAnswerObservers

NoAnswerDisconnect ==
    /\ \E c \in ConnIds : Disconnect(c)
    /\ NoAnswerObservers

NoAnswerStatusMonitor == StatusMonitor /\ NoAnswerObservers

NextNoAnswer ==
    \/ NoAnswerConnect \/ NoAnswerRegisterUser \/ NoAnswerInitiateCall
    \/ NoAnswerEndCall \/ NoAnswerDisconnect \/ NoAnswerStatusMonitor

SpecNoAnswer == Init /\ [][NextNoAnswer]_vars /\ WF_vars(NoAnswerStatusMonitor)

\* Callers that may leave the call id to the server: registrations, initiate-call
\* with or without a sessionId, end-call and disconnects.
GlareObservers == UNCHANGED <<lastJoined, known, regBy, snapshot, client>> /\ ObserveRemoved

GlareConnect == opened < CallsConns /\ Connect /\ GlareObservers

GlareRegisterUser ==
    /\ \E c \in ConnIds, u \in Users : RegisterUser(c, u, PlainUserData)
    /\ GlareObservers

GlareInitiateCall ==
    /\ \E c \in ConnIds, to, caller \in Users, k \in ClientSessionIds \cup {NoCall} :
          InitiateCall(c, to, caller, k)
    /\ GlareObservers

GlareEndCall ==
    /\ \E c \in ConnIds, to \in Users, k \in CallIds : EndCall(c, to, k, DefaultEndReason)
    /\ GlareObservers

GlareDisconnect ==
    /\ \E c \in ConnIds : Disconnect(c)
    /\ GlareObservers

NextGlare ==
    \/ GlareConnect \/ GlareRegisterUser \/ GlareInitiateCall \/ GlareEndCall
    \/ GlareDisconnect

SpecGlare == Init /\ [][NextGlare]_vars

\* Clients that send what they like: registrations and joins with or without the
\* required fields, any message with no payload at all, and disconnects.
MalformedObservers == UNCHANGED <<lastJoined, known, regBy, snapshot, removed, client>>

MalformedConnect == Running /\ opened < RelayConns /\ Connect /\ MalformedObservers

MalformedRegisterUser ==
    /\ Running
    /\ \E c \in ConnIds, u \in Users \cup {NoUser} : RegisterUser(c, u, PlainUserData)
    /\ MalformedObservers

MalformedJoinRoom ==
    /\ Running
    /\ \E c \in ConnIds, r \in {"r1", NoRoom}, u \in Users \cup {NoUser} : JoinRoom(c, r, u)
    /\ MalformedObservers

MalformedNoPayload ==
    /\ Running
    /\ \E c \in ConnIds, ev \in EventNames : NoPayload(c, ev)
    /\ MalformedObservers

MalformedDisconnect ==
    /\ Running
    /\ \E c \in ConnIds : Disconnect(c)
    /\ MalformedObservers

MalformedShutdown == ShutdownDisconnect /\ MalformedObservers

NextMalformed ==
    \/ MalformedConnect \/ MalformedRegisterUser \/ MalformedJoinRoom
    \/ MalformedNoPayload \/ MalformedDisconnect \/ MalformedShutdown

SpecMalformed == Init /\ [][NextMalformed]_vars

\* ---------------------------------------------------------------- properties: rooms
Count(msgs, P(_)) == Cardinality({i \in 1..Len(msgs) : P(msgs[i])})

MembershipsOf(c) == {r \in DOMAIN rooms : c \in DOMAIN rooms[r]}

\* C2: every member entry of every room belongs to an identity that is registered
\* in userSessions.
NoDanglingMembership ==
    \A r \in DOMAIN rooms : \A c \in DOMAIN rooms[r] : Has(userSessions, rooms[r][c])

\* C3: once the disconnect of a connection has been processed, no session has that
\* connection as its socketId and no room has an entry keyed by it.
NoOrphanAfterDisconnect ==
    \A c \in closed :
        /\ \A u \in DOMAIN userSessions : userSessions[u].socketId # c
        /\ MembershipsOf(c) = {}

\* C8: a connection that has joined rooms has exactly one membership entry in the
\* whole rooms map, and it is in the room it joined last.
JoinRoomSingleMembership ==
    \A c \in OpenConns : lastJoined[c] # NoRoom => MembershipsOf(c) = {lastJoined[c]}

\* A join-room that made the connection leave a room other members were in.
JoinRoomSingleMembershipWitness ==
    /\ JoinSucceeded(lastEvent)
    /\ \E i \in 1..Len(emitted) :
          emitted[i].ev = "user-left" /\ emitted[i].body.socketId = lastEvent.socket
    /\ MembershipsOf(lastEvent.socket) = {lastEvent.room}

\* C9: a successful join-room sends the joiner one room-joined whose participants
\* are exactly the room's other members, also when there is none, and sends each
\* member already present one user-joined for the joiner.
JoinRoomNotifies ==
    JoinSucceeded(lastEvent) =>
        LET c == lastEvent.socket
            others == Participants(rooms[lastEvent.room], c)
            IsSnapshot(m) == /\ m.to = c
                             /\ m.ev = "room-joined"
                             /\ m.body = [room |-> lastEvent.room, participants |-> others]
        IN  /\ Count(emitted, IsSnapshot) = 1
            /\ \A p \in others :
                  IsOpen(p.socketId) =>
                     LET IsJoined(m) == /\ m.to = p.socketId
                                        /\ m.ev = "user-joined"
                                        /\ m.body.socketId = c
                     IN  Count(emitted, IsJoined) = 1

\* C10: two connections that have joined the same room and are both in it know of
\* each other, from the room-joined snapshot or from a user-joined event.
JoinerNeverMissed ==
    \A a \in OpenConns : \A b \in OpenConns \ {a} :
        (/\ lastJoined[a] # NoRoom
         /\ lastJoined[a] = lastJoined[b]
         /\ lastJoined[a] \in MembershipsOf(a) \cap MembershipsOf(b))
        => b \in known[a]

\* Two connections share a room: the later joiner learned of the earlier one from
\* its snapshot, the earlier one of the later one from user-joined.
JoinerNeverMissedWitness ==
    /\ JoinSucceeded(lastEvent)
    /\ \E a \in OpenConns \ {lastEvent.socket} :
          /\ a \in DOMAIN rooms[lastEvent.room]
          /\ lastEvent.socket \in known[a]
          /\ a \in known[lastEvent.socket]
          /\ \E i \in 1..Len(emitted) : emitted[i].ev = "user-joined" /\ emitted[i].to = a
          /\ \E i \in 1..Len(emitted) :
                emitted[i].ev = "room-joined" /\ emitted[i].to = lastEvent.socket

\* ---------------------------------------------------------------- properties: relay
RelayKinds == {"offer", "answer", "ice-candidate"}

\* C7: a relay message whose target is not in userSessions gets the sender one error
\* event and nothing else is emitted; the sender stays connected and userSessions,
\* rooms and activeCalls are what they were.
RelayMissStep ==
    (lastEvent'.ev \in RelayKinds /\ ~Has(userSessions, lastEvent'.data.to))
    => /\ Len(emitted') = 1
       /\ emitted'[1].ev = "error"
       /\ emitted'[1].to = lastEvent'.socket
       /\ lastEvent'.socket \in OpenConns'
       /\ UNCHANGED <<userSessions, sessOrder, rooms, sockRooms, activeCalls>>

RelayMissReportsError == [][RelayMissStep]_vars

\* A relay message for an unregistered target was answered with an error while
\* another identity is registered.
RelayMissReportsErrorWitness ==
    /\ lastEvent.ev \in RelayKinds
    /\ lastEvent.data.to \in Users
    /\ ~Has(userSessions, lastEvent.data.to)
    /\ emitted = <<ErrorMsg(lastEvent.socket, RelayFailure(lastEvent.ev))>>
    /\ DOMAIN userSessions # {}

IdentitiesOf(c) == {u \in DOMAIN userSessions : userSessions[u].socketId = c}

PayloadOf(m) == IF m.ev = "ice-candidate" THEN m.body.candidate ELSE m.body.payload

SenderTagOf(m) == IF m.ev = "ice-candidate" THEN m.body.from ELSE m.body.caller

\* C6: an offer, answer or ice-candidate for a registered target is emitted once, to
\* the target's socketId, with the sender's payload and tagged with the sender's
\* identity. The tag counts as the sender's identity when it is an identity registered
\* for the sending connection or the caller the sender named in its message.
RelayForwardsTagged ==
    (lastEvent.ev \in RelayKinds /\ Has(userSessions, lastEvent.data.to))
    => /\ Len(emitted) = 1
       /\ emitted[1].ev = lastEvent.ev
       /\ emitted[1].to = userSessions[lastEvent.data.to].socketId
       /\ PayloadOf(emitted[1]) = lastEvent.data.payload
       /\ SenderTagOf(emitted[1]) \in
             IdentitiesOf(lastEvent.socket) \cup ({lastEvent.data.caller} \ {NoUser})

\* ---------------------------------------------------------------- properties: reconnect
\* The identity re-registered from another connection, which is still open.
Reconnected(u) ==
    /\ regBy[u][1] # NoConn
    /\ regBy[u][1] # regBy[u][2]
    /\ IsOpen(regBy[u][2])

\* C5: once an identity has re-registered from a new connection, a relay message
\* addressed to it goes to the new connection, and the disconnect of the stale
\* connection leaves the identity registered.
ReconnectStep ==
    /\ (/\ lastEvent'.ev \in RelayKinds
        /\ Has(userSessions, lastEvent'.data.to)
        /\ Reconnected(lastEvent'.data.to))
       => \A i \in 1..Len(emitted') : emitted'[i].to = regBy[lastEvent'.data.to][2]
    /\ \A u \in DOMAIN userSessions :
          (/\ lastEvent'.ev = "disconnect"
           /\ Reconnected(u)
           /\ lastEvent'.socket = regBy[u][1])
          => Has(userSessions', u)

ReconnectResolvesToNewHandle == [][ReconnectStep]_vars

\* ---------------------------------------------------------------- properties: calls
\* C1: every Call in activeCalls names only identities that are in userSessions: its
\* caller, its callee and each of its participants.
LedgerNamesRegisteredOnly ==
    \A k \in DOMAIN activeCalls :
        ({activeCalls[k].caller, activeCalls[k].callee}
            \cup Range(activeCalls[k].participants)) \subseteq DOMAIN userSessions

\* C4: when the caller and the callee of an in-progress Call are its two
\* participants, registered on two connections, and the one's connection
\* disconnects, the other's connection gets exactly one call-ended for that Call,
\* with the disconnect reason, and the Call has left activeCalls. (The reason is
\* compared as the server spells it, "Participant disconnected".)
DisconnectEndsCallStep ==
    \A k \in DOMAIN activeCalls : \A x \in Users : \A y \in Users \ {x} :
        (/\ lastEvent'.ev = "disconnect"
         /\ activeCalls[k].status = "in-progress"
         /\ activeCalls[k].participants = <<activeCalls[k].caller, activeCalls[k].callee>>
         /\ {activeCalls[k].caller, activeCalls[k].callee} = {x, y}
         /\ Has(userSessions, x) /\ Has(userSessions, y)
         /\ userSessions[x].socketId = lastEvent'.socket
         /\ userSessions[y].socketId # lastEvent'.socket
         /\ userSessions[y].currentCall = k
         /\ IsOpen(userSessions[y].socketId))
        => LET IsEnded(m) == /\ m.to = userSessions[y].socketId
                             /\ m.ev = "call-ended"
                             /\ m.body.sessionId = k
                             /\ m.body.reason = DisconnectReason
           IN  /\ Count(emitted', IsEnded) = 1
               /\ ~Has(activeCalls', k)

DisconnectEndsCall == [][DisconnectEndsCallStep]_vars

\* ---------------------------------------------------------------- properties: snapshots
\* The i-th message of this step is a user-joined for an identity that the receiving
\* connection, a member under another identity, still holds from its room-joined
\* snapshot.
DuplicateJoined(i) ==
    LET m == emitted'[i]
    IN  /\ m.ev = "user-joined"
        /\ m.to \in OpenConns'
        /\ \E r \in DOMAIN rooms' :
              m.to \in DOMAIN rooms'[r] /\ rooms'[r][m.to] # m.body.userId
        /\ m.body.userId \in
              {p.userId : p \in LearnSnapshot(SnapshotAtJoin, SubSeq(emitted', 1, i - 1),
                                              OpenConns')[m.to]}

\* C11: a connection never receives a user-joined for a member of its room-joined
\* snapshot unless a user-left for that member (by socket or by identity) reached it
\* in between.
NoDuplicateJoinedStep == \A i \in 1..Len(emitted') : ~DuplicateJoined(i)

NoDuplicateJoined == [][NoDuplicateJoinedStep]_vars

\* ---------------------------------------------------------------- properties: call status
\* A Call that is in-progress before the step and whose id is in activeCalls after it.
StaysInProgress(k) ==
    Has(activeCalls', k) => activeCalls'[k].status = "in-progress"

\* A Call leaves activeCalls as rejected when the reject-call handler deletes it.
LeavesAsRejected(k) ==
    ~Has(activeCalls', k) /\ lastEvent'.ev = "reject-call"

\* C12: the status of a Call only moves forward: no step takes a Call that is
\* in-progress, between two registered identities, back to initiated, and none takes it
\* from in-progress to rejected.
StatusMovesForwardStep ==
    \A k \in DOMAIN activeCalls :
        (/\ activeCalls[k].status = "in-progress"
         /\ activeCalls[k].caller # activeCalls[k].callee
         /\ {activeCalls[k].caller, activeCalls[k].callee} \subseteq DOMAIN userSessions)
        => StaysInProgress(k) /\ ~LeavesAsRejected(k)

StatusMovesForward == [][StatusMovesForwardStep]_vars

\* C13: a call id that has been taken out of activeCalls, as ended or as rejected,
\* never is in activeCalls again.
NoRevival == \A k \in removed : ~Has(activeCalls, k)

\* ---------------------------------------------------------------- properties: call records
RecordsOf(k) == {i \in 1..Len(saved') : saved'[i].sessionId = k}

\* C14: the step that takes a Call out of activeCalls, by reject-call, by end-call
\* or by a disconnect, asks for exactly one CallNote of that Call, and no step asks
\* for two of one Call.
RecordWrittenOnceStep ==
    /\ \A k \in (DOMAIN activeCalls) \ (DOMAIN activeCalls') : Cardinality(RecordsOf(k)) = 1
    /\ \A k \in CallIds : Cardinality(RecordsOf(k)) <= 1

RecordWrittenOnce == [][RecordWrittenOnceStep]_vars

\* ---------------------------------------------------------------- properties: no answer
\* An initiated Call between a caller and a callee that are registered on two open
\* connections.
Ringing(k) ==
    /\ Has(activeCalls, k)
    /\ activeCalls[k].status = "initiated"
    /\ LET caller == activeCalls[k].caller
           callee == activeCalls[k].callee
       IN  /\ caller # callee
           /\ {caller, callee} \subseteq DOMAIN userSessions
           /\ IsOpen(userSessions[caller].socketId)
           /\ IsOpen(userSessions[callee].socketId)
           /\ userSessions[caller].socketId # userSessions[callee].socketId

\* The Call rings and the last thing the server did was its timer: no client has
\* sent anything since.
RingingUnanswered(k) == Ringing(k) /\ lastEvent.ev = "status"

\* C15: a Call that stays initiated, its callee sending neither accept-call nor
\* reject-call, eventually leaves activeCalls by the server's own doing: it does not
\* ring for ever while no client sends anything.
NoAnswerTimesOut == \A k \in ClientSessionIds : RingingUnanswered(k) ~> ~RingingUnanswered(k)

\* ---------------------------------------------------------------- properties: glare
\* The Calls in activeCalls that one of two identities started towards the other.
CallsFromTo(x, y) ==
    {k \in DOMAIN activeCalls : activeCalls[k].caller = x /\ activeCalls[k].callee = y}

\* C16: when two registered identities have each sent initiate-call to the other,
\* activeCalls holds one Call between them, not one in each direction.
GlareResolved ==
    \A x \in DOMAIN userSessions : \A y \in (DOMAIN userSessions) \ {x} :
        (/\ IsOpen(userSessions[x].socketId)
         /\ IsOpen(userSessions[y].socketId)
         /\ userSessions[x].socketId # userSessions[y].socketId)
        => ~(CallsFromTo(x, y) # {} /\ CallsFromTo(y, x) # {})

\* ---------------------------------------------------------------- properties: failures
\* C17: whatever a client sends, no exception escapes a handler: the uncaughtException
\* hook, which shuts the server down, never runs.
NothingFatal == ~uncaught

\* ---------------------------------------------------------------- properties: accept-call
\* The step handles an accept-call for the Call k, which is in activeCalls.
AcceptsCall(k) ==
    /\ lastEvent'.ev = "accept-call"
    /\ lastEvent'.sessionId = k
    /\ lastEvent'.to # NoUser
    /\ Has(activeCalls, k)

\* C18: an accept-call replayed for a Call that is already in-progress, its callee
\* having accepted before, leaves the Call as it was, and no identity is twice among
\* the participants afterwards.
AcceptReplayStep ==
    \A k \in DOMAIN activeCalls :
        (/\ AcceptsCall(k)
         /\ activeCalls[k].status = "in-progress"
         /\ activeCalls[k].caller # activeCalls[k].callee
         /\ activeCalls[k].participants = <<activeCalls[k].caller, activeCalls[k].callee>>
         /\ lastEvent'.callerId = activeCalls[k].callee
         /\ lastEvent'.to = activeCalls[k].caller)
        => /\ activeCalls'[k] = activeCalls[k]
           /\ Cardinality(Range(activeCalls'[k].participants))
                 = Len(activeCalls'[k].participants)

AcceptReplayIgnored == [][AcceptReplayStep]_vars

\* C19: an accept-call for an initiated Call between two identities registered on two
\* open connections makes it in-progress with exactly its caller and its callee as
\* participants, and sends one call-accepted to the connection of its caller.
AcceptJoinsCalleeStep ==
    \A k \in DOMAIN activeCalls :
        (AcceptsCall(k) /\ Ringing(k))
        => LET call == activeCalls[k]
               IsAccepted(m) == /\ m.to = userSessions[call.caller].socketId
                                /\ m.ev = "call-accepted"
                                /\ m.body.sessionId = k
           IN  /\ Has(activeCalls', k)
               /\ activeCalls'[k].status = "in-progress"
               /\ Range(activeCalls'[k].participants) = {call.caller, call.callee}
               /\ Count(emitted', IsAccepted) = 1

AcceptJoinsCallee == [][AcceptJoinsCalleeStep]_vars

\* ---------------------------------------------------------------- properties: end-call
\* The identity the end-call handler takes as the one who ended the Call.
EndedBy(c, to) ==
    IF IdentitiesOf(c) # {} THEN FirstWithSocket(userSessions, sessOrder, c) ELSE to

\* C20: an end-call for a Call in activeCalls sends each participant that is
\* registered one call-ended with the sessionId, the reason and endedBy, to its
\* socketId, and sends nothing else; the Call leaves activeCalls; currentCall is
\* cleared for the participants that had this Call there and no session changes
\* otherwise. An end-call for an id that is not in activeCalls emits nothing and
\* changes nothing. (duration is a time span and has no counterpart here.)
EndCallStep ==
    lastEvent'.ev = "end-call" =>
        LET k == lastEvent'.sessionId
            body == [sessionId |-> k, reason |-> lastEvent'.reason,
                     endedBy |-> EndedBy(lastEvent'.socket, lastEvent'.to)]
        IN  IF Has(activeCalls, k)
            THEN LET ps == {p \in Range(activeCalls[k].participants) : Has(userSessions, p)}
                     IsEndedFor(p, m) == m = Msg(userSessions[p].socketId, "call-ended", body)
                 IN  /\ \A p \in ps :
                           Cardinality({i \in 1..Len(emitted') : IsEndedFor(p, emitted'[i])}) = 1
                     /\ \A i \in 1..Len(emitted') : \E p \in ps : IsEndedFor(p, emitted'[i])
                     /\ ~Has(activeCalls', k)
                     /\ DOMAIN userSessions' = DOMAIN userSessions
                     /\ \A u \in DOMAIN userSessions :
                           userSessions'[u] =
                              IF u \in ps /\ userSessions[u].currentCall = k
                              THEN [userSessions[u] EXCEPT !.currentCall = NoCall]
                              ELSE userSessions[u]
            ELSE /\ emitted' = << >>
                 /\ saved' = << >>
                 /\ UNCHANGED program

EndCallNotifiesAndRemoves == [][EndCallStep]_vars

\* An end-call has just ended a Call of two participants: the two connections they
\* are registered on each got a call-ended, the Call is gone and recorded, and no
\* session has a currentCall left.
EndCallNotifiesAndRemovesWitness ==
    /\ lastEvent.ev = "end-call"
    /\ ~Has(activeCalls, lastEvent.sessionId)
    /\ lastEvent.sessionId \in removed
    /\ Len(emitted) = 2
    /\ emitted[1].ev = "call-ended" /\ emitted[2].ev = "call-ended"
    /\ emitted[1].to # emitted[2].to
    /\ Len(saved) = 1
    /\ Len(saved[1].participants) = 2
    /\ \A u \in DOMAIN userSessions : userSessions[u].currentCall = NoCall

\* ---------------------------------------------------------------- properties: reconnect, state left behind
\* The room entries that name identity u.
EntriesOf(r, u) ==
    IF Has(rooms, r) THEN {c \in DOMAIN rooms[r] : rooms[r][c] = u} ELSE {}

\* One session for u, resolving to its new connection, and one entry for u in r.
SingleState(r, u) ==
    /\ Has(userSessions, u)
    /\ userSessions[u].socketId = regBy[u][2]
    /\ EntriesOf(r, u) = {regBy[u][2]}

\* The last message of a reconnect, in either order: the disconnect of the old
\* connection once the new one has registered and joined, or the join-room of the
\* new connection once it has registered and the old one is gone. In both the
\* registry resolves u to the new connection beforehand.
ReconnectCompletes(r, u) ==
    /\ Reconnected(u)
    /\ Has(userSessions, u)
    /\ userSessions[u].socketId = regBy[u][2]
    /\ \/ /\ lastEvent'.ev = "disconnect"
          /\ lastEvent'.socket = regBy[u][1]
          /\ regBy[u][2] \in EntriesOf(r, u)
       \/ /\ lastEvent'.ev = "join-room"
          /\ lastEvent'.socket = regBy[u][2]
          /\ lastEvent'.userId = u
          /\ lastEvent'.room = r
          /\ regBy[u][1] \in closed

ReconnectLeavesNoDuplicateStep ==
    \A u \in Users : ReconnectCompletes("r1", u) => SingleState("r1", u)'

\* C25: after a reconnect (register-user and join-room over the new connection,
\* disconnect of the old one, in either order) the registry holds one session for
\* the identity, resolving to the new connection, and the room holds exactly one
\* membership entry for it.
ReconnectLeavesNoDuplicate == [][ReconnectLeavesNoDuplicateStep]_vars

\* ---------------------------------------------------------------- properties: failed call messages
\* The step answered its sender with an error event and nothing else.
AnsweredWithError ==
    /\ Len(emitted') = 1
    /\ emitted'[1].ev = "error"
    /\ emitted'[1].to = lastEvent'.socket

\* An initiate-call whose callee has no session, or an accept-call for a live Call
\* whose caller (the message's 'to') has no session, sent by a registered identity
\* over its own connection.
FailsForAbsentPeer ==
    /\ lastEvent'.ev \in {"initiate-call", "accept-call"}
    /\ ~Has(userSessions, lastEvent'.to)
    /\ LET sender == IF lastEvent'.ev = "initiate-call"
                     THEN lastEvent'.caller ELSE lastEvent'.callerId
       IN  /\ Has(userSessions, sender)
           /\ userSessions[sender].socketId = lastEvent'.socket
    /\ lastEvent'.ev = "accept-call" =>
          /\ Has(activeCalls, lastEvent'.sessionId)
          /\ activeCalls[lastEvent'.sessionId].callee = lastEvent'.callerId
          /\ activeCalls[lastEvent'.sessionId].caller = lastEvent'.to

CurrentCalls(sess) == [u \in DOMAIN sess |-> sess[u].currentCall]

FailedCallMessageStep ==
    (FailsForAbsentPeer /\ AnsweredWithError)
    => /\ activeCalls' = activeCalls
       /\ CurrentCalls(userSessions') = CurrentCalls(userSessions)

\* C26: an initiate-call that fails because the callee is not connected, or an
\* accept-call that fails because the caller is no longer connected, is answered
\* with an error and leaves the Call Ledger and every session's currentCall as
\* they were.
FailedCallMessageChangesNothing == [][FailedCallMessageStep]_vars

\* ---------------------------------------------------------------- properties: the handle of an identity
\* Which connection each registered identity resolves to.
HandleOf(sess) == [u \in DOMAIN sess |-> sess[u].socketId]

JoinRoomKeepsHandlesStep ==
    lastEvent'.ev = "join-room" => HandleOf(userSessions') = HandleOf(userSessions)

\* C27: a join-room message, from any connection and with any userId, leaves the
\* identity-to-handle mapping of the registry unchanged; only register-user
\* changes which connection an identity resolves to.
JoinRoomKeepsHandles == [][JoinRoomKeepsHandlesStep]_vars

RegisterStoresSenderStep ==
    (lastEvent'.ev = "register-user" /\ lastEvent'.userId # NoUser)
    => /\ Has(userSessions', lastEvent'.userId)
       /\ userSessions'[lastEvent'.userId].socketId = lastEvent'.socket

\* C28: after a successful register-user sent by connection c for identity u, the
\* handle stored for u is c itself, whatever fields the userData of the message
\* carries.
RegisterStoresSender == [][RegisterStoresSenderStep]_vars

\* ---------------------------------------------------------------- specification: protocol-abiding clients
\* The call traffic of clients that follow the protocol: a connection registers
\* one identity, every call-lifecycle message names the identity registered on the
\* connection that sends it, a call goes to the other identity, and accept-call
\* and reject-call come from the callee of a live Call and name its caller.
Owns(c, u) == Has(userSessions, u) /\ userSessions[u].socketId = c

HonestObservers == UNCHANGED <<lastJoined, known, regBy, snapshot, client>> /\ ObserveRemoved

HonestConnect == opened < CallsConns /\ Connect /\ HonestObservers

HonestRegisterUser ==
    /\ \E c \in ConnIds, u \in Users :
          /\ \A v \in Users \ {u} : ~Owns(c, v)
          /\ RegisterUser(c, u, PlainUserData)
    /\ HonestObservers

HonestInitiateCall ==
    /\ \E c \in ConnIds, to, caller \in Users, k \in ClientSessionIds :
          /\ Owns(c, caller)
          /\ to # caller
          /\ InitiateCall(c, to, caller, k)
    /\ HonestObservers

HonestAcceptCall ==
    /\ \E c \in ConnIds, to, callerId \in Users, k \in ClientSessionIds :
          /\ Owns(c, callerId)
          /\ Has(activeCalls, k)
          /\ activeCalls[k].callee = callerId
          /\ activeCalls[k].caller = to
          /\ AcceptCall(c, to, k, callerId)
    /\ HonestObservers

HonestRejectCall ==
    /\ \E c \in ConnIds, to, callee \in Users, k \in ClientSessionIds :
          /\ Owns(c, callee)
          /\ Has(activeCalls, k)
          /\ activeCalls[k].callee = callee
          /\ activeCalls[k].caller = to
          /\ RejectCall(c, to, k, DefaultRejectReason)
    /\ HonestObservers

HonestEndCall ==
    /\ \E c \in ConnIds, to, u \in Users, k \in ClientSessionIds :
          /\ Owns(c, u)
          /\ to # u
          /\ EndCall(c, to, k, DefaultEndReason)
    /\ HonestObservers

HonestDisconnect ==
    /\ \E c \in ConnIds : Disconnect(c)
    /\ HonestObservers

NextHonest ==
    \/ HonestConnect \/ HonestRegisterUser \/ HonestInitiateCall \/ HonestAcceptCall
    \/ HonestRejectCall \/ HonestEndCall \/ HonestDisconnect

SpecHonest == Init /\ [][NextHonest]_vars

\* ---------------------------------------------------------------- properties: currentCall
\* C29: in every reachable state each session's currentCall is empty or the id of
\* a Call in the live ledger.
CurrentCallIsLive ==
    \A u \in DOMAIN userSessions :
       userSessions[u].currentCall = NoCall \/ Has(activeCalls, userSessions[u].currentCall)

\* ---------------------------------------------------------------- properties: cancellation
\* Call k from x, registered on cx, to y, registered on the open connection cy, is
\* still in status initiated: y has been sent incoming-call and has not answered.
AwaitingAnswer(k, x, cx, y, cy) ==
    /\ Has(activeCalls, k)
    /\ activeCalls[k].status = "initiated"
    /\ activeCalls[k].caller = x
    /\ activeCalls[k].callee = y
    /\ x # y
    /\ cx # cy
    /\ Owns(cx, x) /\ IsOpen(cx)
    /\ Owns(cy, y) /\ IsOpen(cy)
    /\ userSessions[x].currentCall = k

\* The initiator sends end-call for k, or its connection closes.
Cancels(k, cx) ==
    \/ lastEvent'.ev = "end-call" /\ lastEvent'.socket = cx /\ lastEvent'.sessionId = k
    \/ lastEvent'.ev = "disconnect" /\ lastEvent'.socket = cx

CancelNotifiesTargetStep ==
    \A k \in ClientSessionIds, x, y \in Users, cx, cy \in ConnIds :
       (AwaitingAnswer(k, x, cx, y, cy) /\ Cancels(k, cx))
       => \E i \in 1..Len(emitted') :
             /\ emitted'[i].to = cy
             /\ emitted'[i].ev = "call-ended"
             /\ emitted'[i].body.sessionId = k

\* C30: when the initiator of a Call that is still in status initiated sends
\* end-call or disconnects, the connection of the target, which was sent
\* incoming-call, receives a call-ended for that call id.
CancelNotifiesTarget == [][CancelNotifiesTargetStep]_vars

\* ================================================================ the client
\* VideoCall.jsx. A step is one callback (socket handler, peer handler, promise
\* continuation, button) together with the render it causes and the effects that
\* render re-runs, since those follow the callback before the next event is taken.
\*
\* The effect of lines 524-553 depends on initializeSocket, cleanupSocket and
\* cleanupMediaStreams. initializeSocket is a useCallback over callStatus and
\* connectionRetries (line 281), cleanupMediaStreams one over localStream and
\* remoteStream (line 393). So a render in which any of the four changed runs the
\* effect's cleanup (cleanupSocket, cleanupMediaStreams, peerRef.current.destroy())
\* and then the effect again (initializeSocket(), getUserMedia(true)). The cleanup
\* sets both streams to null, so a step that set a stream causes a second such
\* round, and between steps both streams are null and the socket's handlers close
\* over the current callStatus and connectionRetries.

CallStatuses == {"idle", "calling", "connecting", "connected", "rejected", "ended", "error"}
MaxRetries == 3    \* connectionRetries < 3, line 173

RECURSIVE Pow2(_)
Pow2(k) == IF k = 0 THEN 1 ELSE 2 * Pow2(k - 1)

\* Math.pow(2, connectionRetries) * 1000 ms, in seconds.
RetryDelay(retries) == Pow2(retries)

\* How many times the effect is cleaned up and re-run after a callback.
EffectRounds(status2, retries2, streamSet) ==
    IF streamSet THEN 2
    ELSE IF status2 # callStatus \/ retries2 # connectionRetries THEN 1
    ELSE 0

\* One round: the cleanup (clearTimeout and disconnect in cleanupSocket, destroy of
\* peerRef.current), then initializeSocket and getUserMedia(true) of initialize().
RoundOps(armed, live) ==
    (IF armed THEN <<"clearTimeout">> ELSE << >>)
    \o <<"disconnect">>
    \o (IF live THEN <<"destroy">> ELSE << >>)
    \o <<"create", "getUserMedia">>

EffectOps(n, armed, live) ==
    IF n = 0 THEN << >>
    ELSE IF n = 1 THEN RoundOps(armed, live)
    ELSE RoundOps(armed, live) \o RoundOps(FALSE, FALSE)

\* The render and the effects after a callback that left peerRef.current at pr,
\* the outstanding close events at cl, the suspended calls at pm and the socket at
\* sock, did hops, and armed a retry timer or not. The server is not part of it.
Rendered(n, pr, cl, pm, sock, hops, armed) ==
    /\ pm.init + n <= MaxPending
    /\ peerRef' = IF n > 0 /\ pr = "live" THEN "destroyed" ELSE pr
    /\ closing' = IF n > 0 /\ pr = "live" THEN cl + 1 ELSE cl
    /\ pendingMedia' = [pm EXCEPT !.init = @ + n]
    /\ sockState' = IF n > 0 THEN "opening" ELSE sock
    /\ ops' = hops \o EffectOps(n, armed, pr = "live")
    /\ UNCHANGED server

\* A callback that only sets callStatus.
SetsStatus(ev, status2, hops) ==
    /\ clientEvent' = ev
    /\ callStatus' = status2
    /\ timerDelay' = 0
    /\ Rendered(EffectRounds(status2, connectionRetries, FALSE),
                peerRef, closing, pendingMedia, sockState, hops, FALSE)
    /\ UNCHANGED <<mounted, connectionStatus, connectionRetries, callerInfo>>

\* socket.on('connect')
SocketConnected ==
    /\ mounted /\ sockState = "opening"
    /\ clientEvent' = "connect"
    /\ connectionStatus' = "Connected"
    /\ connectionRetries' = 0
    /\ timerDelay' = 0
    /\ Rendered(EffectRounds(callStatus, 0, FALSE), peerRef, closing,
                pendingMedia, "connected", <<"emit register-user", "emit join-room">>, FALSE)
    /\ UNCHANGED <<mounted, callStatus, callerInfo>>

\* socket.on('disconnect'): the transport is lost and socket.io reconnects.
SocketDisconnected ==
    /\ mounted /\ sockState = "connected"
    /\ clientEvent' = "disconnect"
    /\ connectionStatus' = "Disconnected"
    /\ timerDelay' = 0
    /\ Rendered(0, peerRef, closing, pendingMedia, "opening", << >>, FALSE)
    /\ UNCHANGED <<mounted, callStatus, connectionRetries, callerInfo>>

\* socket.on('connect_error')
SocketConnectError ==
    /\ mounted /\ sockState = "opening"
    /\ clientEvent' = "connect_error"
    /\ connectionStatus' = "Connection Failed"
    /\ IF connectionRetries < MaxRetries
       THEN /\ connectionRetries' = connectionRetries + 1
            /\ timerDelay' = RetryDelay(connectionRetries)
            /\ Rendered(EffectRounds(callStatus, connectionRetries + 1, FALSE), peerRef,
                        closing, pendingMedia, sockState, <<"setTimeout">>, TRUE)
       ELSE /\ connectionRetries' = connectionRetries
            /\ timerDelay' = 0
            /\ Rendered(0, peerRef, closing, pendingMedia, sockState, << >>, FALSE)
    /\ UNCHANGED <<mounted, callStatus, callerInfo>>

\* socket.on('offer'), up to its await.
ReceiveOffer ==
    /\ mounted /\ sockState = "connected"
    /\ clientEvent' = "offer"
    /\ timerDelay' = 0
    /\ IF peerRef # "null"
       THEN /\ Rendered(0, peerRef, closing, pendingMedia, sockState, << >>, FALSE)
            /\ UNCHANGED <<callStatus, callerInfo>>
       ELSE /\ pendingMedia.offer < MaxPending
            /\ callerInfo' = TRUE
            /\ callStatus' = "connecting"
            /\ Rendered(EffectRounds("connecting", connectionRetries, FALSE), peerRef,
                        closing, [pendingMedia EXCEPT !.offer = @ + 1],
                        sockState, <<"getUserMedia">>, FALSE)
    /\ UNCHANGED <<mounted, connectionStatus, connectionRetries>>

\* socket.on('answer'): signals the Peer, no state of the component changes.
ReceiveAnswer ==
    /\ mounted /\ sockState = "connected"
    /\ SetsStatus("answer", callStatus, << >>)

\* socket.on('ice-candidate')
ReceiveIceCandidate ==
    /\ mounted /\ sockState = "connected"
    /\ SetsStatus("ice-candidate", callStatus, << >>)

\* socket.on('call-rejected')
ReceiveCallRejected ==
    /\ mounted /\ sockState = "connected"
    /\ SetsStatus("call-rejected", "rejected", << >>)

\* socket.on('call-ended')
ReceiveCallEnded ==
    /\ mounted /\ sockState = "connected"
    /\ SetsStatus("call-ended", "ended", << >>)

\* initialize() after its await: the stream is set, or the failure is logged.
InitMediaResolves(ok) ==
    /\ mounted /\ pendingMedia.init > 0
    /\ clientEvent' = IF ok THEN "init-media-granted" ELSE "init-media-failed"
    /\ timerDelay' = 0
    /\ Rendered(EffectRounds(callStatus, connectionRetries, ok), peerRef,
                closing, [pendingMedia EXCEPT !.init = @ - 1], sockState, << >>, FALSE)
    /\ UNCHANGED <<mounted, callStatus, connectionStatus, connectionRetries, callerInfo>>

MediaEvent(kind, ok) ==
    IF kind = "offer"
    THEN IF ok THEN "offer-media-granted" ELSE "offer-media-failed"
    ELSE IF ok THEN "answer-media-granted" ELSE "answer-media-failed"

\* The rest of socket.on('offer') (kind "offer") and of answerCall (kind "answer"):
\* new Peer and peerRef.current = peer, or the catch block. The stream that
\* getUserMedia set makes the effect destroy the Peer in the same step.
CallMediaResolves(kind, ok) ==
    /\ mounted /\ pendingMedia[kind] > 0
    /\ clientEvent' = MediaEvent(kind, ok)
    /\ timerDelay' = 0
    /\ LET pm == [pendingMedia EXCEPT ![kind] = @ - 1]
       IN  IF ok
           THEN /\ closing < MaxPeers
                /\ callStatus' = callStatus
                /\ Rendered(EffectRounds(callStatus, connectionRetries, TRUE), "live",
                            closing, pm, sockState, <<"new Peer">>, FALSE)
           ELSE /\ callStatus' = "error"
                /\ Rendered(EffectRounds("error", connectionRetries, FALSE), peerRef,
                            closing, pm, sockState, << >>, FALSE)
    /\ UNCHANGED <<mounted, connectionStatus, connectionRetries, callerInfo>>

\* peer.on('close'), which destroy() raises once.
PeerClose ==
    /\ mounted /\ closing > 0
    /\ clientEvent' = "peer-close"
    /\ callStatus' = "ended"
    /\ timerDelay' = 0
    /\ Rendered(EffectRounds("ended", connectionRetries, FALSE), peerRef,
                closing - 1, pendingMedia, sockState, << >>, FALSE)
    /\ UNCHANGED <<mounted, connectionStatus, connectionRetries, callerInfo>>

\* startCall: setCallStatus(CALLING), then initializeSocket(), whose new socket is
\* not connected yet, so the function returns before getUserMedia. It runs from
\* the auto-start effect and from 'user-joined', both only in status idle.
StartCall ==
    /\ mounted /\ callStatus = "idle"
    /\ clientEvent' = "startCall"
    /\ callStatus' = "calling"
    /\ timerDelay' = 0
    /\ Rendered(1, peerRef, closing, pendingMedia, "opening", <<"disconnect", "create">>, FALSE)
    /\ UNCHANGED <<mounted, connectionStatus, connectionRetries, callerInfo>>

\* answerCall, up to its await (the Answer button of status connecting).
AnswerCall ==
    /\ mounted /\ callStatus = "connecting" /\ callerInfo
    /\ pendingMedia.answer < MaxPending
    /\ clientEvent' = "answerCall"
    /\ timerDelay' = 0
    /\ Rendered(0, peerRef, closing, [pendingMedia EXCEPT !.answer = @ + 1], sockState,
                <<"getUserMedia">>, FALSE)
    /\ UNCHANGED <<mounted, callStatus, connectionStatus, connectionRetries, callerInfo>>

\* rejectCall (the Reject button of status connecting)
RejectCallClicked ==
    /\ mounted /\ callStatus = "connecting"
    /\ SetsStatus("rejectCall", "rejected",
                  IF callerInfo THEN <<"emit reject-call">> ELSE << >>)

\* The component is unmounted: the effect's cleanup runs and nothing is re-run.
Unmounted(pr, cl, hops) ==
    /\ mounted' = FALSE
    /\ peerRef' = IF pr = "live" THEN "destroyed" ELSE pr
    /\ closing' = IF pr = "live" THEN cl + 1 ELSE cl
    /\ sockState' = "none"
    /\ ops' = hops \o <<"disconnect">>
    /\ timerDelay' = 0
    /\ UNCHANGED <<connectionStatus, connectionRetries, callerInfo, pendingMedia>>
    /\ UNCHANGED server

\* endCall (Cancel Call in status calling, the hang-up button in connecting and
\* connected); onEndCall navigates away (App.tsx), which unmounts the component.
EndCallClicked ==
    /\ mounted /\ callStatus \in {"calling", "connecting", "connected"}
    /\ clientEvent' = "endCall"
    /\ callStatus' = "ended"
    /\ Unmounted("null", closing, <<"emit end-call">>)

\* OK in status rejected
AckRejected ==
    /\ mounted /\ callStatus = "rejected"
    /\ SetsStatus("ack-rejected", "ended", << >>)

\* Close in status ended, with onEndCall
AckEnded ==
    /\ mounted /\ callStatus = "ended"
    /\ clientEvent' = "ack-ended"
    /\ callStatus' = "idle"
    /\ Unmounted(peerRef, closing, << >>)

\* Close in status error
AckError ==
    /\ mounted /\ callStatus = "error"
    /\ SetsStatus("ack-error", "idle", << >>)

\* manualReconnect: setConnectionRetries(0), initializeSocket()
ManualReconnect ==
    /\ mounted
    /\ clientEvent' = "manualReconnect"
    /\ connectionRetries' = 0
    /\ timerDelay' = 0
    /\ Rendered(EffectRounds(callStatus, 0, FALSE), peerRef, closing, pendingMedia,
                "opening", <<"disconnect", "create">>, FALSE)
    /\ UNCHANGED <<mounted, callStatus, connectionStatus, callerInfo>>

\* ---------------------------------------------------------------- specification: the client
NextClient ==
    \/ SocketConnected \/ SocketDisconnected \/ SocketConnectError
    \/ ReceiveOffer \/ ReceiveAnswer \/ ReceiveIceCandidate
    \/ ReceiveCallRejected \/ ReceiveCallEnded
    \/ \E ok \in BOOLEAN : InitMediaResolves(ok)
    \/ \E kind \in {"offer", "answer"}, ok \in BOOLEAN : CallMediaResolves(kind, ok)
    \/ PeerClose
    \/ StartCall \/ AnswerCall \/ RejectCallClicked \/ EndCallClicked
    \/ AckRejected \/ AckEnded \/ AckError \/ ManualReconnect

SpecClient == Init /\ [][NextClient]_vars

\* ---------------------------------------------------------------- properties: the client's call state machine
TerminalStatuses == {"ended", "rejected", "error"}

\* The socket events and the peer events the component has handlers for that the
\* model can deliver.
IncomingEvents == {"offer", "answer", "ice-candidate", "call-rejected", "call-ended", "peer-close"}

TerminalStaysStep ==
    (callStatus \in TerminalStatuses /\ clientEvent' \in IncomingEvents)
    => callStatus' = callStatus

\* C21: once callStatus is ended, rejected or error, no incoming socket event and
\* no peer event changes it; only the user's acknowledgment does.
TerminalStays == [][TerminalStaysStep]_vars

\* ---------------------------------------------------------------- properties: one peer connection per call
\* A Peer is referenced and alive, or a getUserMedia call that ends in new Peer is
\* suspended.
PeerExistsOrPending ==
    peerRef = "live" \/ pendingMedia.offer + pendingMedia.answer > 0

CreatesPeer == \E i \in 1..Len(ops') : ops'[i] = "new Peer"

OnePeerPerCallStep ==
    /\ (clientEvent' = "offer" /\ PeerExistsOrPending)
       => /\ pendingMedia'.offer = pendingMedia.offer
          /\ pendingMedia'.answer = pendingMedia.answer
    /\ CreatesPeer
       => /\ peerRef = "null"
          /\ pendingMedia.offer + pendingMedia.answer = 1

\* C22: while a peer connection exists or is being created, a second offer is
\* discarded (it starts no media acquisition), and a Peer is only created when the
\* client references none and no other creation is under way.
OnePeerPerCall == [][OnePeerPerCallStep]_vars

\* ---------------------------------------------------------------- properties: media failure
\* What a step did to the signaling socket: closed it, created one, or sent on it.
SignalingOps == {"disconnect", "create", "emit register-user", "emit join-room",
                 "emit reject-call", "emit end-call"}

MediaFailureStep ==
    (clientEvent' = "offer-media-failed" /\ sockState = "connected")
    => /\ callStatus' = "error"
       /\ sockState' = "connected"
       /\ \A i \in 1..Len(ops') : ops'[i] \notin SignalingOps

\* C23: when getUserMedia rejects while an incoming offer is handled, callStatus
\* becomes error and signaling is unaffected: the socket stays connected, it is
\* neither disconnected nor re-created, and nothing is sent to the server.
\* (startCall returns before it calls getUserMedia, see StartCall.)
MediaFailureLeavesSignaling == [][MediaFailureStep]_vars

\* ---------------------------------------------------------------- properties: connection retries
Did(op) == \E i \in 1..Len(ops') : ops'[i] = op

RetryStep ==
    /\ clientEvent' = "connect_error" =>
          IF connectionRetries < MaxRetries
          THEN /\ connectionRetries' = connectionRetries + 1
               /\ timerDelay' = RetryDelay(connectionRetries)
               /\ ~Did("clearTimeout")
               /\ ~Did("create")
          ELSE /\ connectionRetries' = connectionRetries
               /\ connectionStatus' = "Connection Failed"
               /\ ~Did("setTimeout")
               /\ ~Did("create")
    /\ clientEvent' = "manualReconnect" => connectionRetries' = 0

\* C24: the k-th failure in a row, k < 3, arms a retry timer of 2^k seconds and the
\* next attempt waits for it (the step neither cancels the timer nor opens a
\* connection); at the ceiling a failure arms no timer and opens no connection and
\* the client stays in Connection Failed; manualReconnect resets the counter to 0.
RetryWithBackoff == [][RetryStep]_vars


============================================================================
